---- MODULE Spec2Model ----
(***************************************************************************)
(* VSCP UDP frame construction and encryption (vscpudp/udp.py).            *)
(*                                                                         *)
(* Two functions are modelled: makeVscpFrame(ptype, e), which serialises   *)
(* an event into the "packet type 0" byte layout and appends a CRC, and    *)
(* encryptVscpFrame(frame, encryption), which pads and encrypts a frame.   *)
(*                                                                         *)
(* A bytearray is a sequence of integers 0..255; Python index i is TLA+    *)
(* index i + 1.  Names the module takes from its imports (vscp.*,          *)
(* binascii, vscpEventEx, VSCP_DEFAULT_KEYnn) are taken as resolved; the   *)
(* layout values of vscp.* are those of the VSCP packet-0 wire layout.     *)
(* str(bytearray) at udp.py:167 is the byte string itself (Python 2).      *)
(***************************************************************************)
EXTENDS Integers, Sequences, FiniteSets, TLC

(***************************************************************************)
(* Layout constants of module vscp, as used by udp.py.                     *)
(***************************************************************************)
VSCP_MULTICAST_PACKET0_HEADER_LENGTH == 35

VSCP_MULTICAST_PACKET0_POS_PKTTYPE == 0

VSCP_MULTICAST_PACKET0_POS_HEAD_MSB == 1

VSCP_MULTICAST_PACKET0_POS_HEAD_LSB == 2

VSCP_MULTICAST_PACKET0_POS_TIMESTAMP == 3

VSCP_MULTICAST_PACKET0_POS_YEAR_MSB == 7

VSCP_MULTICAST_PACKET0_POS_YEAR_LSB == 8

VSCP_MULTICAST_PACKET0_POS_MONTH == 9

VSCP_MULTICAST_PACKET0_POS_DAY == 10

VSCP_MULTICAST_PACKET0_POS_HOUR == 11

VSCP_MULTICAST_PACKET0_POS_MINUTE == 12

VSCP_MULTICAST_PACKET0_POS_SECOND == 13

VSCP_MULTICAST_PACKET0_POS_VSCP_CLASS_MSB == 14

VSCP_MULTICAST_PACKET0_POS_VSCP_CLASS_LSB == 15

VSCP_MULTICAST_PACKET0_POS_VSCP_TYPE_MSB == 16

VSCP_MULTICAST_PACKET0_POS_VSCP_TYPE_LSB == 17

VSCP_MULTICAST_PACKET0_POS_VSCP_GUID == 18

VSCP_MULTICAST_PACKET0_POS_VSCP_SIZE_MSB == 34

VSCP_MULTICAST_PACKET0_POS_VSCP_SIZE_LSB == 35

VSCP_MULTICAST_PACKET0_POS_VSCP_DATA == 36

VSCP_ENCRYPTION_NONE == 0

VSCP_ENCRYPTION_AES128 == 1

VSCP_ENCRYPTION_AES192 == 2

VSCP_ENCRYPTION_AES256 == 3

\* Key lengths in bytes of binascii.unhexlify(VSCP_DEFAULT_KEY16/24/32).
VSCP_DEFAULT_KEY16 == 16

VSCP_DEFAULT_KEY24 == 24

VSCP_DEFAULT_KEY32 == 32

\* The payload size the frame code hard-codes for CRC range and truncation.
HardCodedSize == 13

(***************************************************************************)
(* Bounds of the model.                                                    *)
(***************************************************************************)
\* vscp.VSCP_LEVEL2_MAXDATA, the protocol's maximum payload, scaled down.
\* udp.py needs it to be at least 13 (the buffer must hold offset 50).
VSCP_LEVEL2_MAXDATA == 16

\* Number of encryptVscpFrame calls made on one frame.
MaxEncrypts == 2

(***************************************************************************)
(* Byte arithmetic.                                                        *)
(***************************************************************************)
Byte == 0..255

\* x >> n
Shr(x, n) == x \div (2 ^ n)

\* x & 0xff
And255(x) == x % 256

RECURSIVE Xor(_, _)
\* a ^ b on non-negative integers
Xor(a, b) ==
    IF a = 0 THEN b
    ELSE IF b = 0 THEN a
    ELSE (((a % 2) + (b % 2)) % 2) + (2 * Xor(a \div 2, b \div 2))

\* c_ushort(x).value
UShort(x) == x % 65536

\* bytearray(n): n zero bytes
ByteArray(n) == [i \in 1..n |-> 0]

\* f[a:b] for 0 <= a, clipped to the length as Python slicing does
Slice(f, a, b) ==
    LET hi == IF b < Len(f) THEN b ELSE Len(f)
    IN  IF hi <= a THEN << >> ELSE [i \in 1..(hi - a) |-> f[a + i]]

\* f[i] = v
Put(f, i, v) == [f EXCEPT ![i + 1] = v]

\* f[i]
At(f, i) == f[i + 1]

(***************************************************************************)
(* PyCRC CRCCCITT(version='FFFF').calculate, polynomial 0x1021.            *)
(***************************************************************************)
crc_ccitt_constant == 4129

starting_value == 65535

RECURSIVE TableLoop(_, _, _)
\* init_crc_table's inner loop: j rounds left
TableLoop(crc, c, j) ==
    IF j = 0 THEN crc
    ELSE LET top == Shr(Xor(crc, c), 15) % 2
             sh  == UShort(crc * 2)
         IN  TableLoop(IF top = 1 THEN Xor(sh, crc_ccitt_constant) ELSE sh,
                       UShort(c * 2), j - 1)

crc_ccitt_table == [i \in 0..255 |-> TableLoop(0, i * 256, 8)]

\* one round of calculate's loop: the register after character code d
CrcStep(crc, d) ==
    LET tmp == Xor(And255(Shr(crc, 8)), d)
    IN  Xor(((crc * 256) % 65536) - ((crc * 256) % 256), crc_ccitt_table[tmp])

RECURSIVE CrcLoop(_, _, _, _)
\* the register after the characters s[lo..hi], taken in order (the range
\* is halved, and the left half's register settled before the right half
\* starts, so that the evaluation does not nest once per character)
CrcLoop(crc, s, lo, hi) ==
    IF lo > hi THEN crc
    ELSE IF lo = hi THEN CrcStep(crc, s[lo])
    ELSE LET mid  == (lo + hi) \div 2
             left == CrcLoop(crc, s, lo, mid)
         IN  IF left \in 0..65535 THEN CrcLoop(left, s, mid + 1, hi) ELSE left

\* calculate(input): input is a sequence of character (or byte) codes
Calculate(s) == CrcLoop(starting_value, s, 1, Len(s))

\* one upper-case hex digit as a character code
HexChar(d) == IF d < 10 THEN 48 + d ELSE 55 + d

\* '\\x{:02X}'.format(x): the four characters  \ x H L
FormatByte(x) == << 92, 120, HexChar(x \div 16), HexChar(x % 16) >>

\* ''.join('\\x{:02X}'.format(x) for x in bytes): four characters a byte
BinStr(bytes) ==
    [j \in 1..(4 * Len(bytes)) |->
        FormatByte(bytes[((j - 1) \div 4) + 1])[((j - 1) % 4) + 1]]

(***************************************************************************)
(* Inputs: events, packet types and clock readings.                        *)
(***************************************************************************)
\* ctypes c_ubyte * 16 holding g, g+1, ... or sixteen times g
GuidRamp(g) == [i \in 1..16 |-> (g + i - 1) % 256]

GuidFill(g) == [i \in 1..16 |-> g]

Guids == { GuidFill(170), GuidRamp(1) }

\* a payload array of len bytes starting at base
DataRamp(base, len) == [i \in 1..len |-> (base + i - 1) % 256]

\* declared payload sizes, the last one above the maximum
SizeDatas == { 0, 1, HardCodedSize, HardCodedSize + 1,
               VSCP_LEVEL2_MAXDATA, VSCP_LEVEL2_MAXDATA + 1 }

\* e.data is either exactly sizedata bytes long, or an array of fixed
\* capacity VSCP_LEVEL2_MAXDATA (the ctypes layout of vscpEventEx)
DataLens(n) == { n, VSCP_LEVEL2_MAXDATA }

\* year, month, day, hour, minute, second of the event
Dates == { [year |-> 0, month |-> 0, day |-> 0,
            hour |-> 0, minute |-> 0, second |-> 0],
           [year |-> 2020, month |-> 1, day |-> 1,
            hour |-> 0, minute |-> 0, second |-> 0],
           [year |-> 0, month |-> 0, day |-> 0,
            hour |-> 0, minute |-> 0, second |-> 7] }

\* readings of datetime.datetime.utcnow()
Clocks == { [year |-> 2020, month |-> 1, day |-> 1,
             hour |-> 0, minute |-> 0, second |-> 0],
            [year |-> 2026, month |-> 11, day |-> 6,
             hour |-> 8, minute |-> 40, second |-> 59] }

\* 32-bit timestamps
Timestamps == { 0, 16909060, 65536 }

Heads == { 0, 4660 }

PTypes == { 0, 1 }

Event(kind, head, ts, d, guid, n, data) ==
    [kind |-> kind, head |-> head, timestamp |-> ts,
     year |-> d.year, month |-> d.month, day |-> d.day,
     hour |-> d.hour, minute |-> d.minute, second |-> d.second,
     vscpclass |-> 10, vscptype |-> 6,
     guid |-> guid, sizedata |-> n, data |-> data]

Events ==
    UNION { { Event("vscpEventEx", h, t, d, g, n, DataRamp(17, l)) :
                h \in Heads, t \in Timestamps, d \in Dates,
                g \in Guids, l \in DataLens(n) } : n \in SizeDatas }
    \cup
    { Event("vscpEvent", 0, 0, d, GuidFill(170), n, DataRamp(17, n)) :
        d \in Dates, n \in SizeDatas }

NoEvent ==
    Event("none", 0, 0, [year |-> 0, month |-> 0, day |-> 0,
                         hour |-> 0, minute |-> 0, second |-> 0],
          GuidFill(0), 0, << >>)

NoFrame == << >>

(***************************************************************************)
(* makeVscpFrame( ptype, e )                                               *)
(***************************************************************************)
\* isinstance(e, vscpEventEx)
IsEventEx(e) == e.kind = "vscpEventEx"

\* the size check off by one: a payload one byte over the maximum passes
DataTooLargeOffByOne(e) == e.sizedata > VSCP_LEVEL2_MAXDATA + 1

\* e.sizedata > vscp.VSCP_LEVEL2_MAXDATA
DataTooLarge(e) == e.sizedata > VSCP_LEVEL2_MAXDATA

\* room for possible max frame
AllocFrame ==
    ByteArray(1 + VSCP_MULTICAST_PACKET0_HEADER_LENGTH
                + VSCP_LEVEL2_MAXDATA + 2)

WritePktType(f, ptype) == Put(f, VSCP_MULTICAST_PACKET0_POS_PKTTYPE, ptype)

WriteHead(f, e) ==
    Put(Put(f, VSCP_MULTICAST_PACKET0_POS_HEAD_MSB, And255(Shr(e.head, 8))),
        VSCP_MULTICAST_PACKET0_POS_HEAD_LSB, And255(e.head))

WriteTimestamp(f, e) ==
    LET p  == VSCP_MULTICAST_PACKET0_POS_TIMESTAMP
        f0 == Put(f,  p,     And255(Shr(e.timestamp, 24)))
        f1 == Put(f0, p + 1, And255(Shr(e.timestamp, 8)))
        f2 == Put(f1, p + 2, And255(Shr(e.timestamp, 8)))
    IN  Put(f2, p + 3, And255(e.timestamp))

\* all six date/time fields of the event are zero
DateIsZero(e) ==
    /\ 0 = e.year /\ 0 = e.month  /\ 0 = e.day
    /\ 0 = e.hour /\ 0 = e.minute /\ 0 = e.second

\* the year written when the clock is substituted
ClockYear(dt) == 1900 + dt.year

WriteDateBlock(f, year, month, day, hour, minute, second) ==
    LET f0 == Put(f,  VSCP_MULTICAST_PACKET0_POS_YEAR_MSB, And255(Shr(year, 8)))
        f1 == Put(f0, VSCP_MULTICAST_PACKET0_POS_YEAR_LSB, And255(year))
        f2 == Put(f1, VSCP_MULTICAST_PACKET0_POS_MONTH, month)
        f3 == Put(f2, VSCP_MULTICAST_PACKET0_POS_DAY, day)
        f4 == Put(f3, VSCP_MULTICAST_PACKET0_POS_HOUR, hour)
        f5 == Put(f4, VSCP_MULTICAST_PACKET0_POS_MINUTE, minute)
    IN  Put(f5, VSCP_MULTICAST_PACKET0_POS_SECOND, second)

WriteDate(f, e, dt) ==
    IF DateIsZero(e)
    THEN WriteDateBlock(f, ClockYear(dt), dt.month, dt.day,
                        dt.hour, dt.minute, dt.second)
    ELSE WriteDateBlock(f, e.year, e.month, e.day,
                        e.hour, e.minute, e.second)

WriteClassType(f, e) ==
    LET f0 == Put(f,  VSCP_MULTICAST_PACKET0_POS_VSCP_CLASS_MSB, And255(Shr(e.vscpclass, 8)))
        f1 == Put(f0, VSCP_MULTICAST_PACKET0_POS_VSCP_CLASS_LSB, And255(e.vscpclass))
        f2 == Put(f1, VSCP_MULTICAST_PACKET0_POS_VSCP_TYPE_MSB, And255(Shr(e.vscptype, 8)))
    IN  Put(f2, VSCP_MULTICAST_PACKET0_POS_VSCP_TYPE_LSB, And255(e.vscptype))

\* for i in (0,15): the loop runs over the two elements of the tuple
GuidIndices == << 0, 15 >>

RECURSIVE CopyGuid(_, _, _)
CopyGuid(f, e, k) ==
    IF k > Len(GuidIndices) THEN f
    ELSE LET i == GuidIndices[k]
         IN  CopyGuid(Put(f, VSCP_MULTICAST_PACKET0_POS_VSCP_GUID + i, At(e.guid, i)),
                      e, k + 1)

WriteSize(f, e) ==
    Put(Put(f, VSCP_MULTICAST_PACKET0_POS_VSCP_SIZE_MSB, And255(Shr(e.sizedata, 8))),
        VSCP_MULTICAST_PACKET0_POS_VSCP_SIZE_LSB, And255(e.sizedata))

\* for i in (0,e.sizedata): the loop runs over the two elements of the tuple
DataIndices(e) == << 0, e.sizedata >>

\* the indices of e.data the loop reads
DataReads(e) == { DataIndices(e)[k] : k \in 1..Len(DataIndices(e)) }

\* some read or write of the data loop is out of range (IndexError)
DataIndexError(f, e) ==
    \E i \in DataReads(e) :
        \/ i >= Len(e.data)
        \/ VSCP_MULTICAST_PACKET0_POS_VSCP_DATA + i >= Len(f)

RECURSIVE CopyData(_, _, _)
CopyData(f, e, k) ==
    IF k > Len(DataIndices(e)) THEN f
    ELSE LET i == DataIndices(e)[k]
         IN  CopyData(Put(f, VSCP_MULTICAST_PACKET0_POS_VSCP_DATA + i, At(e.data, i)),
                      e, k + 1)

\* frame[ 1 : POS_VSCP_DATA + 13 ], the bytes the CRC is taken of
CrcRange(f) == Slice(f, 1, VSCP_MULTICAST_PACKET0_POS_VSCP_DATA + HardCodedSize)

\* CRCCCITT(version='FFFF').calculate( binstr )
FrameCrc(f) == Calculate(BinStr(CrcRange(f)))

\* offset of the first CRC byte
CrcPos == 1 + VSCP_MULTICAST_PACKET0_HEADER_LENGTH + HardCodedSize

WriteCrc(f) ==
    LET framecrc == FrameCrc(f)
    IN  Put(Put(f, CrcPos, And255(Shr(framecrc, 8))),
            CrcPos + 1, And255(framecrc))

\* shrink to frame size
Shrink(f) ==
    Slice(f, 0, 1 + VSCP_MULTICAST_PACKET0_HEADER_LENGTH + HardCodedSize + 2)

\* The call's outcome: err is "none" or the exception raised, frame the
\* returned bytearray, allocated whether the buffer was created.
MakeVscpFrame(ptype, e, dt) ==
    IF ~IsEventEx(e)
    THEN [err |-> "ValueError: must be vscpEventEx", frame |-> NoFrame,
          allocated |-> FALSE]
    ELSE IF DataTooLarge(e)
    THEN [err |-> "ValueError: data size greater than allowed", frame |-> NoFrame,
          allocated |-> FALSE]
    ELSE LET f0 == AllocFrame
             f1 == WritePktType(f0, ptype)
             f2 == WriteHead(f1, e)
             f3 == WriteTimestamp(f2, e)
             f4 == WriteDate(f3, e, dt)
             f5 == WriteClassType(f4, e)
             f6 == CopyGuid(f5, e, 1)
             f7 == WriteSize(f6, e)
         IN  IF DataIndexError(f7, e)
             THEN [err |-> "IndexError", frame |-> NoFrame, allocated |-> TRUE]
             ELSE [err |-> "none",
                   frame |-> Shrink(WriteCrc(CopyData(f7, e, 1))),
                   allocated |-> TRUE]

(***************************************************************************)
(* encryptVscpFrame( frame, encryption )                                   *)
(***************************************************************************)
NoPacket == << >>

NoIv == << >>

\* values the encryption argument takes; 4 is no recognised identifier
Encryptions == { VSCP_ENCRYPTION_NONE, VSCP_ENCRYPTION_AES128,
                 VSCP_ENCRYPTION_AES192, VSCP_ENCRYPTION_AES256, 4 }

\* readings of Random.new().read(16)
IVs == { [i \in 1..16 |-> (3 * i) % 256], [i \in 1..16 |-> (200 + i) % 256] }

\* the key the if/elif chain selects (by its length); the else branch
\* keeps the initial value of line 138
KeyFor(encryption) ==
    IF encryption = VSCP_ENCRYPTION_AES128 THEN VSCP_DEFAULT_KEY16
    ELSE IF encryption = VSCP_ENCRYPTION_AES192 THEN VSCP_DEFAULT_KEY24
    ELSE IF encryption = VSCP_ENCRYPTION_AES256 THEN VSCP_DEFAULT_KEY32
    ELSE VSCP_DEFAULT_KEY16

\* the prebyte the if/elif chain selects; the else branch keeps b"\x01"
PrebyteFor(encryption) ==
    IF encryption = VSCP_ENCRYPTION_AES128 THEN 1
    ELSE IF encryption = VSCP_ENCRYPTION_AES192 THEN 2
    ELSE IF encryption = VSCP_ENCRYPTION_AES256 THEN 3
    ELSE 1

\* the alignment test taken of the whole frame, packet-type byte included
NeedsPadWholeFrame(f) == (Len(f) % 16) # 0

\* while ( len( frame ) - 1 ) % 16: another zero byte is needed
NeedsPad(f) == ((Len(f) - 1) % 16) # 0

RECURSIVE PadFrame(_)
\* frame.append(0) until aligned; the caller's bytearray itself grows
PadFrame(f) == IF NeedsPad(f) THEN PadFrame(Append(f, 0)) ELSE f

\* one cipher block: the 16 bytes of pt after offset off, chained to prev
CbcBlock(key, prev, pt, off) ==
    [k \in 1..16 |-> (pt[off + k] + prev[k] + key) % 256]

RECURSIVE CbcLoop(_, _, _, _)
\* the blocks of pt from offset off on, each chained to the one before
CbcLoop(key, prev, pt, off) ==
    IF off >= Len(pt) THEN << >>
    ELSE LET blk == CbcBlock(key, prev, pt, off)
         IN  blk \o CbcLoop(key, blk, pt, off + 16)

\* AES.new(key, AES.MODE_CBC, iv).encrypt(pt): the cipher is abstracted to
\* a keyed, chained, length-preserving transformation of whole 16-byte
\* blocks; input that is not block aligned is rejected (ValueError)
CipherEncrypt(key, iv, pt) ==
    IF (Len(pt) % 16) # 0
    THEN [err |-> "ValueError: not a multiple of 16", out |-> << >>]
    ELSE [err |-> "none", out |-> CbcLoop(key, iv, pt, 0)]

\* The call's outcome: frame is the caller's bytearray after the call,
\* result the returned value, iv the random bytes drawn (none when the
\* call returns before drawing them).
EncryptVscpFrame(f, encryption, rnd) ==
    IF VSCP_ENCRYPTION_NONE = encryption
    THEN [err |-> "none", frame |-> f, result |-> f, iv |-> NoIv]
    ELSE LET padded == PadFrame(f)
             c      == CipherEncrypt(KeyFor(encryption), rnd, Tail(padded))
         IN  IF c.err # "none"
             THEN [err |-> c.err, frame |-> padded, result |-> NoPacket,
                   iv |-> rnd]
             ELSE [err |-> "none", frame |-> padded,
                   result |-> << PrebyteFor(encryption) >> \o c.out \o rnd,
                   iv |-> rnd]

(***************************************************************************)
(* The caller: builds a frame (or brings a bytearray of its own), then     *)
(* passes it to encryptVscpFrame some number of times.                     *)
(***************************************************************************)
\* bytearrays a caller hands to encryptVscpFrame directly
SuppliedFrames == { DataRamp(1, l) : l \in {1, 2, 16, 17, 18, 33} }

VARIABLES
    pc,          \* "idle", "built" (the caller holds a frame), "failed"
    origin,      \* "none", "make", "supplied": where the frame came from
    ptype,       \* arguments of the makeVscpFrame call
    e,
    dt,          \* the clock reading of that call
    made,        \* outcome of the makeVscpFrame call
    frame,       \* the caller's bytearray
    built,       \* that bytearray as the caller first had it
    given,       \* the bytearray as passed to the last encryptVscpFrame call
    encryption,  \* argument of the last encryptVscpFrame call
    iv,          \* random bytes it drew
    packet,      \* what it returned
    encErr,      \* the exception it raised, or "none"
    nEnc         \* encryptVscpFrame calls made on the frame

vars == << pc, origin, ptype, e, dt, made, frame, built, given,
           encryption, iv, packet, encErr, nEnc >>

NoClock == [year |-> 0, month |-> 0, day |-> 0,
            hour |-> 0, minute |-> 0, second |-> 0]

NotMade == [err |-> "none", frame |-> NoFrame, allocated |-> FALSE]

Init ==
    /\ pc = "idle"
    /\ origin = "none"
    /\ ptype = 0
    /\ e = NoEvent
    /\ dt = NoClock
    /\ made = NotMade
    /\ frame = NoFrame
    /\ built = NoFrame
    /\ given = NoFrame
    /\ encryption = VSCP_ENCRYPTION_NONE
    /\ iv = NoIv
    /\ packet = NoPacket
    /\ encErr = "none"
    /\ nEnc = 0

MakeFrame ==
    /\ pc = "idle"
    /\ \E p \in PTypes, ev \in Events, clock \in Clocks :
         LET r == MakeVscpFrame(p, ev, clock)
         IN  /\ ptype' = p
             /\ e' = ev
             /\ dt' = clock
             /\ made' = r
             /\ frame' = r.frame
             /\ built' = r.frame
             /\ pc' = IF r.err = "none" THEN "built" ELSE "failed"
    /\ origin' = "make"
    /\ UNCHANGED << given, encryption, iv, packet, encErr, nEnc >>

SupplyFrame ==
    /\ pc = "idle"
    /\ \E f \in SuppliedFrames :
         /\ frame' = f
         /\ built' = f
    /\ origin' = "supplied"
    /\ pc' = "built"
    /\ UNCHANGED << ptype, e, dt, made, given, encryption, iv, packet,
                    encErr, nEnc >>

Encrypt ==
    /\ pc = "built"
    /\ nEnc < MaxEncrypts
    /\ \E enc \in Encryptions, rnd \in IVs :
         LET r == EncryptVscpFrame(frame, enc, rnd)
         IN  /\ given' = frame
             /\ encryption' = enc
             /\ frame' = r.frame
             /\ packet' = r.result
             /\ encErr' = r.err
             /\ iv' = r.iv
    /\ nEnc' = nEnc + 1
    /\ UNCHANGED << pc, origin, ptype, e, dt, made, built >>

\* the caller drops the frame and starts over
Reset ==
    /\ pc \in {"built", "failed"}
    /\ pc' = "idle"
    /\ origin' = "none"
    /\ ptype' = 0
    /\ e' = NoEvent
    /\ dt' = NoClock
    /\ made' = NotMade
    /\ frame' = NoFrame
    /\ built' = NoFrame
    /\ given' = NoFrame
    /\ encryption' = VSCP_ENCRYPTION_NONE
    /\ iv' = NoIv
    /\ packet' = NoPacket
    /\ encErr' = "none"
    /\ nEnc' = 0

Next == MakeFrame \/ SupplyFrame \/ Encrypt \/ Reset

Spec == Init /\ [][Next]_vars

TypeOK ==
    /\ pc \in {"idle", "built", "failed"}
    /\ \A i \in 1..Len(frame) : frame[i] \in Byte
    /\ \A i \in 1..Len(packet) : packet[i] \in Byte

(***************************************************************************)
(* Properties.                                                             *)
(***************************************************************************)
\* makeVscpFrame was called and returned a frame
Made == origin = "make" /\ made.err = "none"

\* encryptVscpFrame was called on the caller's frame
Encrypted == pc = "built" /\ nEnc > 0

DataTooLargeError == "ValueError: data size greater than allowed"

\* C1: the frame makeVscpFrame returns for an event with payload size n
\* is exactly 1 + HEADER_LENGTH + n + 2 bytes long.
C1_FrameLengthFollowsSize ==
    Made =>
        Len(made.frame) =
            1 + VSCP_MULTICAST_PACKET0_HEADER_LENGTH + e.sizedata + 2

\* C2: the 16 bytes of the frame's GUID field are the event's guid, byte
\* for byte and in order.
C2_GuidCopiedVerbatim ==
    Made =>
        \A i \in 0..15 :
            At(made.frame, VSCP_MULTICAST_PACKET0_POS_VSCP_GUID + i)
                = At(e.guid, i)

\* C3: for an extended event whose data holds exactly sizedata = n bytes,
\* n within the maximum, the build succeeds, the n payload bytes are in the
\* frame's data field, and no index of data at or beyond n is read.
C3_PayloadCopiedExactly ==
    ( /\ origin = "make"
      /\ IsEventEx(e)
      /\ e.sizedata = Len(e.data)
      /\ e.sizedata <= VSCP_LEVEL2_MAXDATA )
    =>
    ( /\ made.err = "none"
      /\ \A i \in DataReads(e) : i < e.sizedata
      /\ Len(made.frame) >= VSCP_MULTICAST_PACKET0_POS_VSCP_DATA + e.sizedata
      /\ \A k \in 0..(e.sizedata - 1) :
            At(made.frame, VSCP_MULTICAST_PACKET0_POS_VSCP_DATA + k)
                = At(e.data, k) )

\* C4: the four timestamp bytes of the frame are the 32-bit timestamp,
\* most significant byte first.
C4_TimestampBigEndian ==
    Made =>
        LET p == VSCP_MULTICAST_PACKET0_POS_TIMESTAMP
            t == e.timestamp
        IN  /\ At(made.frame, p)     = (t \div 16777216) % 256
            /\ At(made.frame, p + 1) = (t \div 65536) % 256
            /\ At(made.frame, p + 2) = (t \div 256) % 256
            /\ At(made.frame, p + 3) = t % 256

\* C5: the CRC is taken of the byte values frame[1 .. HEADER_LENGTH + n]
\* and stored most significant byte first right after the last payload
\* byte, in the last two bytes of the returned frame.
C5_CrcOverHeaderAndPayload ==
    Made =>
        LET n   == e.sizedata
            end == 1 + VSCP_MULTICAST_PACKET0_HEADER_LENGTH + n
        IN  /\ Len(made.frame) = end + 2
            /\ LET crc == Calculate(Slice(made.frame, 1, end))
               IN  /\ At(made.frame, end)     = (crc \div 256) % 256
                   /\ At(made.frame, end + 1) = crc % 256

\* C6: with all six date/time fields zero the frame's date/time block is
\* the clock reading, its year the full calendar year as 16 bits big
\* endian; otherwise it is the six fields of the event.
C6_DateBlock ==
    Made =>
        LET src == IF DateIsZero(e) THEN dt ELSE e
        IN  /\ At(made.frame, VSCP_MULTICAST_PACKET0_POS_YEAR_MSB)
                  = (src.year \div 256) % 256
            /\ At(made.frame, VSCP_MULTICAST_PACKET0_POS_YEAR_LSB)
                  = src.year % 256
            /\ At(made.frame, VSCP_MULTICAST_PACKET0_POS_MONTH) = src.month
            /\ At(made.frame, VSCP_MULTICAST_PACKET0_POS_DAY) = src.day
            /\ At(made.frame, VSCP_MULTICAST_PACKET0_POS_HOUR) = src.hour
            /\ At(made.frame, VSCP_MULTICAST_PACKET0_POS_MINUTE) = src.minute
            /\ At(made.frame, VSCP_MULTICAST_PACKET0_POS_SECOND) = src.second

\* C7 as stated: every event with sizedata above the maximum fails with
\* the data-too-large error, before a buffer exists, and returns no frame.
C7_EveryOversizedEventRejected ==
    (origin = "make" /\ e.sizedata > VSCP_LEVEL2_MAXDATA) =>
        /\ made.err = DataTooLargeError
        /\ ~made.allocated
        /\ made.frame = NoFrame

\* C7 as amended: every extended event with sizedata above the maximum
\* fails with the data-too-large error, before a buffer exists, and
\* returns no frame.
C7_OversizedExtendedEventRejected ==
    (origin = "make" /\ IsEventEx(e) /\ e.sizedata > VSCP_LEVEL2_MAXDATA) =>
        /\ made.err = DataTooLargeError
        /\ ~made.allocated
        /\ made.frame = NoFrame
        /\ pc = "failed"

C7_Witness ==
    /\ origin = "make"
    /\ IsEventEx(e)
    /\ e.sizedata = VSCP_LEVEL2_MAXDATA + 1
    /\ made.err = DataTooLargeError
    /\ pc = "failed"

RecognisedEncryptions ==
    { VSCP_ENCRYPTION_NONE, VSCP_ENCRYPTION_AES128,
      VSCP_ENCRYPTION_AES192, VSCP_ENCRYPTION_AES256 }

\* C8: an encryption identifier that is none of the four recognised ones
\* is rejected: encryptVscpFrame raises and returns no packet.
C8_UnknownSchemeFailsClosed ==
    (Encrypted /\ encryption \notin RecognisedEncryptions) =>
        /\ encErr # "none"
        /\ packet = NoPacket

\* C9: after any calls of encryptVscpFrame the caller's frame has the
\* length and the bytes it had before the first call.
C9_FrameNeverModified ==
    Encrypted => frame = built

\* the smallest multiple of 16 that is >= n
Align16(n) == 16 * ((n + 15) \div 16)

\* s followed by zero bytes up to length n
ZeroPadded(s, n) == [i \in 1..n |-> IF i <= Len(s) THEN s[i] ELSE 0]

====
